---- MODULE Spec2Model ----
(***************************************************************************)
(* Model of src/index.js: an express server keeping tracking links in a    *)
(* Firebase Realtime Database under links/<id>.                            *)
(*                                                                         *)
(* Time is counted in whole hours; expiresInHours is given in half hours,  *)
(* so that a fractional value (1.5 hours = 3 halves) is representable.     *)
(* Every await of a handler is a point where other handlers and the clock  *)
(* may run, so                                                             *)
(* GET /track/:linkId is three steps: the database read (line 77), the     *)
(* continuation that checks expiry and builds the update (lines 79-102),   *)
(* and the database applying the update (line 97).                         *)
(***************************************************************************)
EXTENDS Integers, Sequences, FiniteSets, TLC

VARIABLES
  store,      \* the database subtree links/: id -> record, for the ids stored
  now,        \* the wall clock (new Date()), in hours
  req,        \* the in-flight GET /track requests, one per slot
  last,       \* the response of the handler that completed last
  creates,    \* history: the number of links created
  started,    \* history: the number of track requests the database has read for
  accepted    \* history: per id, the clicks answered with the redirect since
              \* the record was last created (count and fingerprints)

vars == <<store, now, req, last, creates, started, accepted>>

\* ---------------------------------------------------------------- bounds
MaxTime == 2        \* the clock stops ticking here
MaxClicks == 3      \* at most this many track requests are made
MaxCreates == 2     \* at most this many links are created
MaxRateClicks == 6  \* the largest click counter whose rate is computed

\* The inputs the requests are drawn from.  One id makes every second
\* create a collision of generated ids; creates carry an expiresInHours and
\* no campaign, clicks carry no campaign.
Ids == {"a1"}                       \* values of uuidv4().split('-')[0]
Clients == {"ipA", "ipB"}           \* values of req.ip + user-agent
CreateCampaigns == {}               \* campaigns a create body may carry
ClickCampaigns == {}                \* campaigns a track query may carry
Slots == {"r1", "r2"}               \* concurrent track requests

\* Wider inputs, for the specifications below that leave something else
\* out: a second id, a campaign on creates and on clicks, and creates
\* without expiresInHours.
WideIds == {"a1", "b2"}
WideCreateCampaigns == {"ads"}
WideClickCampaigns == {"", "promo"}

\* An optional body or query field, or record child: absent (undefined in
\* the code) or present with a value.
Undefined == <<>>
Some(v) == <<v>>

\* expiresInHours as the body gives it: a finite number (in half hours, so
\* 3 is 1.5 hours), a non-numeric value, an infinite number, or absent.
Num(n) == [kind |-> "num", halves |-> n]
Hours(n) == Num(2 * n)
NotANumber == [kind |-> "nan"]
Infinite == [kind |-> "inf"]
HourValues == {Num(n) : n \in {-2, 0, 1, 2, 3}} \cup {NotANumber, Infinite}
HourInputs == {Some(h) : h \in HourValues}
CreateCampaignInputs == {Some(c) : c \in CreateCampaigns} \cup {Undefined}
ClickCampaignInputs == {Some(c) : c \in ClickCampaigns} \cup {Undefined}
WideHourInputs == HourInputs \cup {Undefined}
WideCreateCampaignInputs ==
  {Some(c) : c \in WideCreateCampaigns} \cup {Undefined}
WideClickCampaignInputs ==
  {Some(c) : c \in WideClickCampaigns} \cup {Undefined}

\* ------------------------------------------------------ pure computations
\* Line 38: the defaults of the destructured body.
DefaultHours == 24
DefaultCampaign == "default"

\* Line 39: isNaN(expiresInHours) || expiresInHours < 1.  An infinite value
\* is a number and is not below 1, so it passes.
InvalidHours(h) ==
  \/ h.kind = "nan"
  \/ h.kind = "num" /\ h.halves < Hours(1).halves

\* Line 46: parseInt(expiresInHours), defined for the finite numbers >= 1:
\* the whole hours, the fraction dropped.
ParseIntHours(h) == h.halves \div Hours(1).halves

\* Lines 44-46: expiresAt = the clock with parseInt(expiresInHours) hours
\* added.  The two new Date() of lines 44 and 45 run back to back and read
\* the same hour t.
ExpiresAt(t, h) == t + ParseIntHours(h)

\* Lines 48-56: the record a create stores.  Firebase keeps no empty array,
\* and line 90 reads the missing clickers back as [].
NewLink(id, t, h, campaign) ==
  [id |-> id, created |-> t, expires |-> ExpiresAt(t, h), clicks |-> 0,
   uniqueClicks |-> 0, clickers |-> <<>>, campaign |-> campaign,
   lastAccessed |-> Undefined]

\* Line 83: snapshot.val(), kept to the children the handler reads.
LinkData(link) ==
  [expires |-> link.expires, clicks |-> link.clicks,
   uniqueClicks |-> link.uniqueClicks, clickers |-> link.clickers,
   campaign |-> link.campaign]

\* An expiry check that also refuses at the instant of expiry.
ExpiredInclusive(t, link) == t >= link.expires

\* Line 84: new Date() > new Date(linkData.expires).
Expired(t, link) == t > link.expires

\* Line 92: clickers.includes(clientId).
Includes(clickers, clientId) ==
  \E i \in 1..Len(clickers) : clickers[i] = clientId

\* ClickUpdate without the test of line 92: every click counts as unique.
ClickUpdateAlwaysUnique(linkData, clientId, campaign, t) ==
  [clicks |-> linkData.clicks + 1,
   uniqueClicks |-> linkData.uniqueClicks + 1,
   clickers |-> IF \E i \in 1..Len(linkData.clickers) :
                     linkData.clickers[i] = clientId
                THEN linkData.clickers
                ELSE Append(linkData.clickers, clientId),
   campaign |-> IF campaign = Undefined \/ campaign = Some("")
                THEN linkData.campaign ELSE campaign[1],
   lastAccessed |-> Some(t)]

\* ClickUpdate with the total left as it was read: clicks written without
\* the + 1 of line 98.
ClickUpdateNoIncrement(linkData, clientId, campaign, t) ==
  LET seen == \E i \in 1..Len(linkData.clickers) :
                 linkData.clickers[i] = clientId
  IN
  [clicks |-> linkData.clicks,
   uniqueClicks |-> IF seen THEN linkData.uniqueClicks
                    ELSE linkData.uniqueClicks + 1,
   clickers |-> IF seen THEN linkData.clickers
                ELSE Append(linkData.clickers, clientId),
   campaign |-> IF campaign = Undefined \/ campaign = Some("")
                THEN linkData.campaign ELSE campaign[1],
   lastAccessed |-> Some(t)]

\* The click that pushes its fingerprint without looking for it first.
ClickUpdateAlwaysPushing(linkData, clientId, campaign, t) ==
  LET seen == Includes(linkData.clickers, clientId) IN
  [clicks |-> linkData.clicks + 1,
   uniqueClicks |-> IF seen THEN linkData.uniqueClicks
                    ELSE linkData.uniqueClicks + 1,
   clickers |-> Append(linkData.clickers, clientId),
   campaign |-> IF campaign = Undefined \/ campaign = Some("")
                THEN linkData.campaign ELSE campaign[1],
   lastAccessed |-> Some(t)]

\* Lines 88-102: the object handed to linkRef.update, computed from the
\* snapshot read at line 77.
ClickUpdate(linkData, clientId, campaign, t) ==
  LET seen == Includes(linkData.clickers, clientId) IN
  [clicks |-> linkData.clicks + 1,
   uniqueClicks |-> IF seen THEN linkData.uniqueClicks
                    ELSE linkData.uniqueClicks + 1,
   clickers |-> IF seen THEN linkData.clickers
                ELSE Append(linkData.clickers, clientId),
   campaign |-> IF campaign = Undefined \/ campaign = Some("")
                THEN linkData.campaign ELSE campaign[1],
   lastAccessed |-> Some(t)]

\* An update that also pushes the expiry one hour on.
ApplyUpdateExtending(link, u) ==
  [link EXCEPT !.clicks = u.clicks, !.uniqueClicks = u.uniqueClicks,
               !.clickers = u.clickers, !.campaign = u.campaign,
               !.lastAccessed = u.lastAccessed, !.expires = @ + 1]

\* Line 97: update() writes the named children of links/<id> and leaves the
\* others as they are.
ApplyUpdate(link, u) ==
  [link EXCEPT !.clicks = u.clicks, !.uniqueClicks = u.uniqueClicks,
               !.clickers = u.clickers, !.campaign = u.campaign,
               !.lastAccessed = u.lastAccessed]

\* Line 132 and line 157: new Date() < new Date(link.expires).
IsActive(t, link) == t < link.expires

\* Dates subtract to milliseconds (line 124); the divisors of line 135.
MsPerMinute == 1000 * 60
MsPerHour == 1000 * 60 * 60
HoursToMs(t) == t * MsPerHour

\* Line 124: Math.max(0, new Date(linkData.expires) - new Date()), both in
\* milliseconds.
RemainingMs(expiresMs, nowMs) ==
  IF expiresMs - nowMs > 0 THEN expiresMs - nowMs ELSE 0

\* A line 135 that forgets the remainder after the hours.
TimeRemainingAllMinutes(expiresMs, nowMs) ==
  LET timeRemaining == RemainingMs(expiresMs, nowMs) IN
  [hours |-> timeRemaining \div MsPerHour,
   minutes |-> timeRemaining \div MsPerMinute]

\* Line 135: the two numbers of "<H> hours <M> minutes".
TimeRemaining(expiresMs, nowMs) ==
  LET timeRemaining == RemainingMs(expiresMs, nowMs) IN
  [hours |-> timeRemaining \div MsPerHour,
   minutes |-> (timeRemaining % MsPerHour) \div MsPerMinute]

\* Line 136: "0%" (no decimals), or the percentage with two decimals that
\* toFixed(2) prints, kept in hundredths of a percent: toFixed rounds to the
\* nearest hundredth, and no ratio of counts below 32 lies half way.
ClickThroughRateTruncating(uniqueClicks, clicks) ==
  IF clicks > 0
  THEN [decimals |-> 2, hundredths |-> (10000 * uniqueClicks) \div clicks]
  ELSE [decimals |-> 0, hundredths |-> 0]

ClickThroughRate(uniqueClicks, clicks) ==
  IF clicks > 0
  THEN [decimals |-> 2,
        hundredths |-> (2 * 10000 * uniqueClicks + clicks) \div (2 * clicks)]
  ELSE [decimals |-> 0, hundredths |-> 0]

\* Lines 126-137: the body GetStats answers with.
StatsView(link, t) ==
  [op |-> "stats", status |-> 200, id |-> link.id, clicks |-> link.clicks,
   uniqueClicks |-> link.uniqueClicks, created |-> link.created,
   expires |-> link.expires, isActive |-> IsActive(t, link),
   campaign |-> link.campaign, lastAccessed |-> link.lastAccessed,
   timeRemaining |-> TimeRemaining(HoursToMs(link.expires), HoursToMs(t)),
   clickThroughRate |-> ClickThroughRate(link.uniqueClicks, link.clicks)]

\* Lines 150-158: what ListAll shows of one record.
ListView(link, t) ==
  [id |-> link.id, created |-> link.created, expires |-> link.expires,
   clicks |-> link.clicks, uniqueClicks |-> link.uniqueClicks,
   campaign |-> link.campaign, isActive |-> IsActive(t, link)]

\* Instants in milliseconds: one millisecond before, on and after these
\* minute marks.
MinuteMarks == {0, 1, 59, 60, 61, 119, 120}
Instants ==
  {i \in {m * MsPerMinute + d : m \in MinuteMarks, d \in {-1, 0, 1}} : i >= 0}

\* ----------------------------------------------------------------- state
Idle == [pc |-> "idle"]
NoAccepted == [n |-> 0, fps |-> {}]
NoResponse == [op |-> "none"]

\* The track requests on id that have read and not yet answered.
InFlight(id) == {r \in Slots : req[r].pc # "idle" /\ req[r].id = id}

Init ==
  /\ store = <<>>
  /\ now = 0
  /\ req = [r \in Slots |-> Idle]
  /\ last = NoResponse
  /\ creates = 0
  /\ started = 0
  /\ accepted = [i \in WideIds |-> NoAccepted]

\* The clock advances; no handler runs.
Tick ==
  /\ now < MaxTime
  /\ now' = now + 1
  /\ last' = NoResponse
  /\ UNCHANGED <<store, req, creates, started, accepted>>

\* ------------------------------------------------------- POST /api/links
\* Lines 36-69.  The id is whatever uuidv4 yields; set() writes the record
\* whether or not links/<id> exists.  The response is kept with the
\* expiresInHours that was asked for.
CreateLink(id, h, c) ==
  LET hours == IF h = Undefined THEN Hours(DefaultHours) ELSE h[1]
      campaign == IF c = Undefined THEN DefaultCampaign ELSE c[1]
  IN
  IF InvalidHours(hours)
  THEN /\ last' = [op |-> "create", status |-> 400, expiresInHours |-> hours]
       /\ UNCHANGED <<store, now, req, creates, started, accepted>>
  ELSE IF hours.kind = "inf"
  THEN \* parseInt(Infinity) is NaN, the date is invalid, toISOString
       \* throws at line 51 and the catch of line 65 answers.
       /\ last' = [op |-> "create", status |-> 500, expiresInHours |-> hours]
       /\ UNCHANGED <<store, now, req, creates, started, accepted>>
  ELSE /\ creates < MaxCreates
       /\ creates' = creates + 1
       /\ store' = (id :> NewLink(id, now, hours, campaign)) @@ store
       /\ accepted' = [accepted EXCEPT ![id] = NoAccepted]
       /\ last' = [op |-> "create", status |-> 200, expiresInHours |-> hours,
                   id |-> id, expires |-> ExpiresAt(now, hours)]
       /\ UNCHANGED <<now, req, started>>

\* ---------------------------------------------------- GET /track/:linkId
\* Line 77: the database answers the read.
TrackGet(r, id) ==
  /\ req[r].pc = "idle"
  /\ started < MaxClicks
  /\ started' = started + 1
  /\ req' = [req EXCEPT ![r] =
       [pc |-> "got", id |-> id,
        snapshot |-> IF id \in DOMAIN store THEN Some(LinkData(store[id]))
                     ELSE Undefined]]
  /\ last' = NoResponse
  /\ UNCHANGED <<store, now, creates, accepted>>

\* TrackCheck with lastAccessed stamped before the expiry check, so that a
\* request answered 410 has written to the record.
TrackCheckStampingFirst(r, clientId, campaign) ==
  /\ req[r].pc = "got"
  /\ IF req[r].snapshot = Undefined
     THEN /\ req' = [req EXCEPT ![r] = Idle]
          /\ last' = [op |-> "track", status |-> 404, id |-> req[r].id]
          /\ store' = store
     ELSE IF Expired(now, req[r].snapshot[1])
     THEN /\ req' = [req EXCEPT ![r] = Idle]
          /\ last' = [op |-> "track", status |-> 410, id |-> req[r].id]
          /\ store' = [store EXCEPT ![req[r].id].lastAccessed = Some(now)]
     ELSE /\ req' = [req EXCEPT ![r] =
               [pc |-> "update", id |-> req[r].id, clientId |-> clientId,
                campaign |-> campaign,
                values |-> ClickUpdate(req[r].snapshot[1], clientId,
                                       campaign, now)]]
          /\ last' = NoResponse
          /\ store' = store
  /\ UNCHANGED <<now, creates, started, accepted>>

\* Lines 79-102: the continuation after the read.  It answers 404 or 410
\* and returns, or hands the update to the database.
TrackCheck(r, clientId, campaign) ==
  /\ req[r].pc = "got"
  /\ IF req[r].snapshot = Undefined
     THEN /\ req' = [req EXCEPT ![r] = Idle]
          /\ last' = [op |-> "track", status |-> 404, id |-> req[r].id]
     ELSE IF Expired(now, req[r].snapshot[1])
     THEN /\ req' = [req EXCEPT ![r] = Idle]
          /\ last' = [op |-> "track", status |-> 410, id |-> req[r].id]
     ELSE /\ req' = [req EXCEPT ![r] =
               [pc |-> "update", id |-> req[r].id, clientId |-> clientId,
                campaign |-> campaign,
                values |-> ClickUpdate(req[r].snapshot[1], clientId,
                                       campaign, now)]]
          /\ last' = NoResponse
  /\ UNCHANGED <<store, now, creates, started, accepted>>

\* Lines 97-105: the database applies the update, then the handler
\* redirects.
TrackUpdate(r) ==
  LET id == req[r].id IN
  /\ req[r].pc = "update"
  /\ store' = [store EXCEPT ![id] = ApplyUpdate(store[id], req[r].values)]
  /\ accepted' = [accepted EXCEPT
       ![id] = [n |-> @.n + 1, fps |-> @.fps \cup {req[r].clientId}]]
  /\ req' = [req EXCEPT ![r] = Idle]
  /\ last' = [op |-> "track", status |-> 302, id |-> id]
  /\ UNCHANGED <<now, creates, started>>

\* GetStats counting the query as a click, as the track handler does.
GetStatsCounting(id) ==
  /\ last' = IF id \notin DOMAIN store
             THEN [op |-> "stats", status |-> 404, id |-> id]
             ELSE StatsView(store[id], now)
  /\ store' = IF id \notin DOMAIN store THEN store
              ELSE [store EXCEPT ![id].clicks = @ + 1]
  /\ UNCHANGED <<now, req, creates, started, accepted>>

\* GetStats answering 404 for a link past its expiry, as the track handler
\* refuses one.
GetStatsRefusingExpired(id) ==
  /\ last' = IF id \notin DOMAIN store \/ ~IsActive(now, store[id])
             THEN [op |-> "stats", status |-> 404, id |-> id]
             ELSE StatsView(store[id], now)
  /\ UNCHANGED <<store, now, req, creates, started, accepted>>

\* ------------------------------------------------ GET /api/links/:linkId
\* Lines 113-142.
GetStats(id) ==
  /\ last' = IF id \notin DOMAIN store
             THEN [op |-> "stats", status |-> 404, id |-> id]
             ELSE StatsView(store[id], now)
  /\ UNCHANGED <<store, now, req, creates, started, accepted>>

\* ----------------------------------------------------- GET /api/links
\* A listing that leaves the expired records out.
ListAllHidingExpired ==
  LET links == {ListView(store[i], now) :
                  i \in {j \in DOMAIN store : IsActive(now, store[j])}} IN
  /\ last' = [op |-> "list", status |-> 200,
              count |-> Cardinality(links),
              active |-> Cardinality({l \in links : l.isActive}),
              links |-> links]
  /\ UNCHANGED <<store, now, req, creates, started, accepted>>

\* Lines 145-169.
ListAll ==
  LET links == {ListView(store[i], now) : i \in DOMAIN store} IN
  /\ last' = [op |-> "list", status |-> 200,
              count |-> Cardinality(links),
              active |-> Cardinality({l \in links : l.isActive}),
              links |-> links]
  /\ UNCHANGED <<store, now, req, creates, started, accepted>>

Next ==
  \/ Tick
  \/ \E id \in Ids, h \in HourInputs, c \in CreateCampaignInputs :
        CreateLink(id, h, c)
  \/ \E r \in Slots, id \in Ids : TrackGet(r, id)
  \/ \E r \in Slots, cl \in Clients, c \in ClickCampaignInputs :
        TrackCheck(r, cl, c)
  \/ \E r \in Slots : TrackUpdate(r)
  \/ \E id \in Ids : GetStats(id)
  \/ ListAll

Spec == Init /\ [][Next]_vars

\* The clock keeps running and the database answers every read and applies
\* every update handed to it; nothing obliges a client to send a request.
FairSpec ==
  /\ Spec
  /\ WF_vars(Tick)
  /\ \A r \in Slots :
       /\ WF_vars(\E cl \in Clients, c \in ClickCampaignInputs :
                    TrackCheck(r, cl, c))
       /\ WF_vars(TrackUpdate(r))

\* Requests served one after another: a request arrives only when no track
\* request is between its read and its answer, so one slot is in use.  The
\* creates and clicks carry the wider inputs.
NoneInFlight == \A r \in Slots : req[r].pc = "idle"

SeqNext ==
  \/ Tick
  \/ /\ NoneInFlight
     /\ \E id \in Ids, h \in WideHourInputs,
           c \in WideCreateCampaignInputs : CreateLink(id, h, c)
  \/ /\ NoneInFlight
     /\ \E id \in Ids : TrackGet("r1", id)
  \/ \E r \in Slots, cl \in Clients, c \in WideClickCampaignInputs :
        TrackCheck(r, cl, c)
  \/ \E r \in Slots : TrackUpdate(r)
  \/ /\ NoneInFlight
     /\ \E id \in Ids : GetStats(id)
  \/ /\ NoneInFlight
     /\ ListAll

SeqSpec == Init /\ [][SeqNext]_vars

\* Overlapping requests as in Next, the clicks carrying the wider campaigns;
\* the queries, which write nothing, are left out.
CampaignNext ==
  \/ Tick
  \/ \E id \in Ids, h \in HourInputs, c \in CreateCampaignInputs :
        CreateLink(id, h, c)
  \/ \E r \in Slots, id \in Ids : TrackGet(r, id)
  \/ \E r \in Slots, cl \in Clients, c \in WideClickCampaignInputs :
        TrackCheck(r, cl, c)
  \/ \E r \in Slots : TrackUpdate(r)

CampaignSpec == Init /\ [][CampaignNext]_vars

\* The two computed fields of the GetStats body, each applied to the values
\* a stored record and the clock can hold: counters with
\* uniqueClicks <= clicks, and instants in milliseconds on and around the
\* minute and hour marks.
ProjectRate(uniqueClicks, clicks) ==
  /\ last' = [op |-> "rate", uniqueClicks |-> uniqueClicks, clicks |-> clicks,
               clickThroughRate |-> ClickThroughRate(uniqueClicks, clicks)]
  /\ UNCHANGED <<store, now, req, creates, started, accepted>>

ProjectTime(expiresMs, nowMs) ==
  /\ last' = [op |-> "time", expiresMs |-> expiresMs, nowMs |-> nowMs,
               timeRemaining |-> TimeRemaining(expiresMs, nowMs)]
  /\ UNCHANGED <<store, now, req, creates, started, accepted>>

ProjectNext ==
  \/ \E c \in 0..MaxRateClicks, u \in 0..MaxRateClicks :
        u <= c /\ ProjectRate(u, c)
  \/ \E e \in Instants, n \in Instants : ProjectTime(e, n)

ProjectSpec == Init /\ [][ProjectNext]_vars

\* Overlapping requests as in Next, on two generated ids, so that links live
\* side by side; every create carries one hour and every click comes from
\* one client.
WideNext ==
  \/ Tick
  \/ \E id \in WideIds : CreateLink(id, Some(Hours(1)), Undefined)
  \/ \E r \in Slots, id \in WideIds : TrackGet(r, id)
  \/ \E r \in Slots : TrackCheck(r, "ipA", Undefined)
  \/ \E r \in Slots : TrackUpdate(r)
  \/ ListAll

WideSpec == Init /\ [][WideNext]_vars

\* ------------------------------------------------------------- the claims
\* The step is the database applying the update of an accepted click.
ClickLands == last'.op = "track" /\ last'.status = 302
\* The step is a track request being answered 404 or 410.
ClickRejected == last'.op = "track" /\ last'.status \in {404, 410}
\* The step is a create storing its record.
CreateStores == creates' # creates

\* C1: once every accepted click on a link has been answered, the record's
\* clicks is the number of clicks accepted on it and its uniqueClicks the
\* number of distinct fingerprints among them.
C1_NoLostUpdate ==
  \A id \in DOMAIN store :
    InFlight(id) = {} =>
      /\ store[id].clicks = accepted[id].n
      /\ store[id].uniqueClicks = Cardinality(accepted[id].fps)

\* C2: no step other than a create lowers the clicks of a stored link.
C2_ClicksNeverDecrease ==
  [][~CreateStores =>
       \A id \in DOMAIN store : store'[id].clicks >= store[id].clicks]_vars

\* C3: in every state every stored link has uniqueClicks <= clicks.
C3_UniqueAtMostClicks ==
  \A id \in DOMAIN store : store[id].uniqueClicks <= store[id].clicks

\* C3 witness: two overlapping clicks have both landed on a link and one
\* overwrote the other.
C3_Witness ==
  \E id \in DOMAIN store :
    /\ accepted[id].n = 2
    /\ store[id].clicks = 1
    /\ store[id].uniqueClicks = 1

\* C4: no click changes a stored link at a moment when the clock is past
\* the link's expiry.
C4_ExpiredLinkInert ==
  [][ClickLands =>
       \A id \in DOMAIN store :
         now > store[id].expires => store'[id] = store[id]]_vars

\* C5: a track request answered 404 or 410 leaves the store as it was.
C5_RejectedClickLeavesStore == [][ClickRejected => store' = store]_vars

\* C5 witness: a click on a stored link that has counted clicks was just
\* answered 410.
C5_Witness ==
  /\ last.op = "track"
  /\ last.status = 410
  /\ last.id \in DOMAIN store
  /\ store[last.id].clicks > 0

\* C6: a create never replaces a stored record: every link stored before
\* the create is the same after it.
C6_CreateNeverReplaces ==
  [][CreateStores => \A id \in DOMAIN store : store'[id] = store[id]]_vars

\* expiresInHours is a finite number >= 1.
FiniteAtLeastOne(h) == h.kind = "num" /\ h.halves >= Hours(1).halves

\* C7: a create that stores a record stores expires == created +
\* expiresInHours (compared in half hours), zero counters and no clickers,
\* so expires > created.
C7_CreateExpiresExact ==
  [][CreateStores =>
       LET link == store'[last'.id] IN
       /\ 2 * (link.expires - link.created) = last'.expiresInHours.halves
       /\ link.clicks = 0
       /\ link.uniqueClicks = 0
       /\ link.clickers = <<>>
       /\ link.expires > link.created]_vars

\* C8: a create whose expiresInHours is not a finite number >= 1 is
\* answered 400 and leaves the store as it was.
C8_InvalidHoursRejected ==
  [][(last'.op = "create" /\ ~FiniteAtLeastOne(last'.expiresInHours)) =>
       last'.status = 400 /\ store' = store]_vars

\* C9: a stored link whose expiry has passed is eventually no longer
\* stored.
C9_ExpiredEventuallyReaped ==
  \A id \in Ids :
    [](id \in DOMAIN store /\ now > store[id].expires
         => <>(id \notin DOMAIN store))

\* C10: a step that answers GetStats or ListAll leaves the store as it was.
C10_QueriesNeverMutate ==
  [][last'.op \in {"stats", "list"} => store' = store]_vars

\* C10 witness: GetStats has just answered for a link with a counted click
\* while another click on it is waiting for the database to apply its
\* update.
C10_Witness ==
  /\ last.op = "stats"
  /\ last.status = 200
  /\ last.clicks > 0
  /\ \E r \in Slots : req[r].pc = "update" /\ req[r].id = last.id

\* C11: GetStats answers 404 exactly for an id that is not stored; for a
\* stored id it answers 200 with the clicks and uniqueClicks stored, and
\* with isActive false when the clock is past the link's expiry.
C11_StatsServeExpired ==
  last.op = "stats" =>
    IF last.id \in DOMAIN store
    THEN /\ last.status = 200
         /\ last.clicks = store[last.id].clicks
         /\ last.uniqueClicks = store[last.id].uniqueClicks
         /\ now > store[last.id].expires => last.isActive = FALSE
    ELSE last.status = 404

\* C11 witness: GetStats has answered for a stored link past its expiry
\* that has counted clicks.
C11_Witness ==
  /\ last.op = "stats"
  /\ last.status = 200
  /\ now > last.expires
  /\ last.isActive = FALSE
  /\ last.clicks = 2

\* The step is the database applying the update of request r.
Lands(r) == req[r].pc = "update" /\ req'[r].pc = "idle"

\* C12: with requests served one after another, a click that lands raises
\* clicks by 1 and uniqueClicks by 1 if its fingerprint was not among the
\* stored clickers and by 0 if it was; and between requests every link has
\* clicks == the clicks accepted on it and uniqueClicks == the distinct
\* fingerprints among them.
C12_SequentialClickCounts ==
  /\ [](NoneInFlight =>
          \A id \in DOMAIN store :
            /\ store[id].clicks = accepted[id].n
            /\ store[id].uniqueClicks = Cardinality(accepted[id].fps))
  /\ [][\A r \in Slots :
          Lands(r) =>
            LET before == store[req[r].id]
                after == store'[req[r].id]
                known == \E i \in 1..Len(before.clickers) :
                           before.clickers[i] = req[r].clientId
            IN /\ after.clicks = before.clicks + 1
               /\ after.uniqueClicks =
                    before.uniqueClicks + (IF known THEN 0 ELSE 1)]_vars

\* C12 witness: three clicks served one after another, two fingerprints:
\* clicks 3, uniqueClicks 2.
C12_Witness ==
  \E id \in DOMAIN store :
    /\ NoneInFlight
    /\ accepted[id].n = 3
    /\ Cardinality(accepted[id].fps) = 2
    /\ store[id].clicks = 3
    /\ store[id].uniqueClicks = 2

\* C13: a click that lands sets the stored campaign to the campaign it
\* carried if it carried a non-empty one, and leaves the stored campaign as
\* it was if it carried none or the empty one.
C13_CampaignOnlyWhenGiven ==
  [][\A r \in Slots :
       Lands(r) =>
         LET given == req[r].campaign
             before == store[req[r].id].campaign
             after == store'[req[r].id].campaign
         IN IF given # Undefined /\ given # Some("")
            THEN after = given[1]
            ELSE after = before]_vars

\* C14: the rate is "0%" when clicks is 0; otherwise it has two decimals and
\* is the hundredth of a percent nearest to uniqueClicks/clicks*100, so 2 of
\* 3 is 66.67%, and it is at most 100.00% when uniqueClicks <= clicks.
C14_RateRounded ==
  last.op = "rate" =>
    LET u == last.uniqueClicks
        c == last.clicks
        rate == last.clickThroughRate
    IN /\ c = 0 => rate = [decimals |-> 0, hundredths |-> 0]
       /\ c > 0 =>
            /\ rate.decimals = 2
            /\ 2 * c * rate.hundredths - 20000 * u \in (0 - c)..c
            /\ u <= c => rate.hundredths <= 10000
       /\ (u = 2 /\ c = 3) => rate.hundredths = 6667

C14_Witness ==
  /\ last.op = "rate"
  /\ last.uniqueClicks = 2
  /\ last.clicks = 3
  /\ last.clickThroughRate = [decimals |-> 2, hundredths |-> 6667]

\* C15: the remaining time is never negative, its minutes are in 0..59,
\* hours*60 + minutes is the remaining time in whole minutes rounded down,
\* and it is 0 hours 0 minutes whenever now >= expires.
C15_TimeRemainingSplit ==
  last.op = "time" =>
    LET remaining == IF last.expiresMs > last.nowMs
                     THEN last.expiresMs - last.nowMs ELSE 0
        tr == last.timeRemaining
    IN /\ tr.hours >= 0
       /\ tr.minutes \in 0..59
       /\ tr.hours * 60 + tr.minutes = remaining \div 60000
       /\ last.nowMs >= last.expiresMs => tr = [hours |-> 0, minutes |-> 0]

C15_Witness ==
  /\ last.op = "time"
  /\ last.expiresMs - last.nowMs = 2 * 3600000 - 1
  /\ last.timeRemaining = [hours |-> 1, minutes |-> 59]

\* C16: the listing's count is the number of stored records and its active
\* is the number of listed links whose isActive is true, isActive being
\* now < expires of the record; so active <= count, and a stored link past
\* its expiry is listed with isActive false.
C16_ListCounts ==
  last.op = "list" =>
    /\ last.count = Cardinality(DOMAIN store)
    /\ last.active = Cardinality({l \in last.links : l.isActive})
    /\ last.active <= last.count
    /\ \A id \in DOMAIN store :
         \E l \in last.links :
           /\ l.id = id
           /\ l.isActive = (now < store[id].expires)
           /\ now > store[id].expires => ~l.isActive
    /\ \A l \in last.links : l.id \in DOMAIN store

C16_Witness ==
  /\ last.op = "list"
  /\ last.count = 2
  /\ last.active = 1
  /\ \E id \in DOMAIN store :
       /\ now > store[id].expires
       /\ \E l \in last.links : l.id = id /\ ~l.isActive

\* C17: a click that lands on id X leaves the id, created and expires of X
\* as they were, and leaves every other stored link as it was.
C17_ClickFrame ==
  [][\A r \in Slots :
       Lands(r) =>
         LET x == req[r].id IN
         /\ DOMAIN store' = DOMAIN store
         /\ store'[x].id = store[x].id
         /\ store'[x].created = store[x].created
         /\ store'[x].expires = store[x].expires
         /\ \A other \in DOMAIN store \ {x} :
              store'[other] = store[other]]_vars

\* A click has landed on one of two stored links and counted.
C17_Witness ==
  /\ Cardinality(DOMAIN store) = 2
  /\ last.op = "track"
  /\ last.status = 302
  /\ \E x \in DOMAIN store : store[x].clicks > 0

\* C18: in every state every stored link's clickers holds no fingerprint
\* twice and its uniqueClicks is the number of fingerprints in clickers,
\* also when overlapping clicks have overwritten each other.
C18_ClickersDistinct ==
  \A id \in DOMAIN store :
    LET clickers == store[id].clickers IN
    /\ \A i, j \in 1..Len(clickers) : clickers[i] = clickers[j] => i = j
    /\ store[id].uniqueClicks = Len(clickers)

\* Two clicks with different fingerprints were accepted and one write was
\* lost: the record holds one fingerprint.
C18_Witness ==
  \E id \in DOMAIN store :
    /\ Cardinality(accepted[id].fps) = 2
    /\ Len(store[id].clickers) = 1
    /\ store[id].uniqueClicks = 1
    /\ \A r \in Slots : req[r].pc = "idle"

\* C19 as claimed: a click is accepted only at an instant at which GetStats
\* on the same id reports isActive true.
C19_PathsAgree ==
  [][\A r \in Slots :
       (req[r].pc = "got" /\ req'[r].pc = "update") =>
         StatsView(store[req[r].id], now).isActive]_vars

\* C19 as amended: GetStats and ListAll report isActive false exactly when
\* now >= expires of the record they read; a click is answered 410 exactly
\* when now > expires of the record it read and goes on to its update
\* exactly when now <= expires; so the paths differ at now = expires only.
C19_PathsAgreeOffBoundary ==
  /\ []((last.op = "stats" /\ last.status = 200) =>
          (~last.isActive <=> now >= last.expires))
  /\ [](last.op = "list" =>
          \A l \in last.links : ~l.isActive <=> now >= l.expires)
  /\ [][\A r \in Slots :
          (req[r].pc = "got" /\ req[r].snapshot # Undefined
             /\ req'[r].pc # "got") =>
            LET expires == req[r].snapshot[1].expires IN
            /\ (req'[r].pc = "idle" /\ last'.status = 410) <=> now > expires
            /\ req'[r].pc = "update" <=> now <= expires]_vars

\* At the instant of expiry a click has passed its check and GetStats
\* reports the link inactive.
C19_Witness ==
  /\ last.op = "stats"
  /\ last.status = 200
  /\ ~last.isActive
  /\ now = last.expires
  /\ \E r \in Slots :
       /\ req[r].pc = "update"
       /\ req[r].id = last.id
       /\ req[r].values.lastAccessed = Some(now)

====
